---- MODULE Spec2Model ----
(***************************************************************************)
(* Model of the transaction engine: an Engine (ledger) mapping client ids  *)
(* to Accounts, fed one InputLine at a time by process_from_csv, and read  *)
(* out once by write_status_to_csv.                                        *)
(*                                                                         *)
(* Amounts are rust_decimal values; they are modelled as integers counting *)
(* a fixed smallest unit (Decimal equality ignores trailing zeros, so 2.0  *)
(* and 2 are the same amount).  All balances of the model stay far from    *)
(* the 96-bit limit of Decimal, where += and -= would panic.               *)
(***************************************************************************)
EXTENDS Integers, FiniteSets, Sequences, TLC

\* Bounds of the model.
MaxInput == 4      \* rows read from the input
MaxAmount == 3     \* largest amount a row carries

\* ClientId (u16) and TransactionId (u32): two of each are told apart.
Clients == {1, 2}
TxIds == {1, 2}
\* Decimal is signed and valid() does not look at the sign.
Amounts == {-1, MaxAmount - 1, MaxAmount}

\* io.rs: InputLineType
Deposit == "deposit"
Withdrawal == "withdrawal"
Dispute == "dispute"
Resolve == "resolve"
Chargeback == "chargeback"
InputLineType == {Deposit, Withdrawal, Dispute, Resolve, Chargeback}

\* Option<Decimal>: None is <<>>, Some(a) is <<a>>.
None == <<>>
Some(a) == <<a>>
is_some(o) == o # <<>>
is_none(o) == o = <<>>
unwrap(o) == o[1]
OptionAmounts == {None} \cup {Some(a) : a \in Amounts}

\* io.rs: InputLine, every row that deserializes.
InputLine == [type : InputLineType, client : Clients, id : TxIds, amount : OptionAmounts]

VARIABLES
    accounts,    \* Engine.0 : HashMap<ClientId, Account>
    phase,       \* position of run_engine: "reading", "failed", "written"
    output,      \* the AccountStatus rows written by write_status_to_csv
    nread,       \* number of rows read so far
    last,        \* history: <<line>> for the row processed last, <<>> at start
    prev,        \* history: the ledger before the row processed last
    deposited,   \* history: the clients a valid Deposit row was processed for
    accepted,    \* history: <<client, tx>> of the valid Deposit rows that
                 \* reached an account that was not locked
    file         \* the rows of the input when they are fixed beforehand, each
                 \* <<line>> (deserializes) or <<>> (does not); <<>> otherwise

vars == <<accounts, phase, output, nread, last, prev, deposited, accepted, file>>

----------------------------------------------------------------------------
\* io.rs: InputLine::valid
valid_DisputeAny(line) ==
    CASE line.type = Deposit -> is_some(line.amount)
      [] line.type = Withdrawal -> is_some(line.amount)
      [] line.type = Dispute -> TRUE
      [] line.type = Resolve -> is_none(line.amount)
      [] line.type = Chargeback -> is_none(line.amount)

valid(line) ==
    CASE line.type = Deposit -> is_some(line.amount)
      [] line.type = Withdrawal -> is_some(line.amount)
      [] line.type = Dispute -> is_none(line.amount)
      [] line.type = Resolve -> is_none(line.amount)
      [] line.type = Chargeback -> is_none(line.amount)

----------------------------------------------------------------------------
\* transaction.rs: Transaction
TransactionDeposit_Disputed(amount) ==
    [type |-> "Deposit", amount |-> amount, disputed |-> TRUE]

TransactionDeposit(amount) == [type |-> "Deposit", amount |-> amount, disputed |-> FALSE]

TransactionAmount(t) == t.amount

TransactionDisputed(t) == t.disputed

TransactionDispute(t) == IF ~t.disputed THEN [t EXCEPT !.disputed = TRUE] ELSE t

TransactionUndispute(t) == IF t.disputed THEN [t EXCEPT !.disputed = FALSE] ELSE t

----------------------------------------------------------------------------
\* account.rs: Account
DefaultAccount == [available |-> 0, held |-> 0, locked |-> FALSE, deposits |-> <<>>]

\* HashMap::insert: adds the key or overwrites its value.
Insert(map, k, v) == [x \in (DOMAIN map) \cup {k} |-> IF x = k THEN v ELSE map[x]]

total_AvailableOnly(self) == self.available

total(self) == self.available + self.held

lock(self) == [self EXCEPT !.locked = TRUE]

get_status(self, client) ==
    [client |-> client,
     available |-> self.available,
     held |-> self.held,
     total |-> total(self),
     locked |-> self.locked]

deposit(self, line) ==
    LET amount == unwrap(line.amount)
    IN [self EXCEPT !.available = @ + amount,
                    !.deposits = Insert(@, line.id, TransactionDeposit(amount))]

withdrawal_Unchecked(self, line) ==
    LET amount == unwrap(line.amount)
    IN [self EXCEPT !.available = @ - amount]

withdrawal_Stored(self, line) ==
    LET amount == unwrap(line.amount)
    IN IF self.available >= amount
       THEN [self EXCEPT !.available = @ - amount,
                         !.deposits = Insert(@, line.id, TransactionDeposit(amount))]
       ELSE self

withdrawal(self, line) ==
    LET amount == unwrap(line.amount)
    IN IF self.available >= amount
       THEN [self EXCEPT !.available = @ - amount]
       ELSE self

dispute_NoHeld(self, line) ==
    IF line.id \in DOMAIN self.deposits
    THEN LET transaction == self.deposits[line.id]
         IN IF ~TransactionDisputed(transaction)
            THEN LET amount == TransactionAmount(transaction)
                 IN [self EXCEPT !.deposits[line.id] = TransactionDispute(transaction),
                                 !.available = @ - amount]
            ELSE self
    ELSE self

dispute_NeedsFunds(self, line) ==
    IF line.id \in DOMAIN self.deposits
    THEN LET transaction == self.deposits[line.id]
         IN IF ~TransactionDisputed(transaction)
               /\ self.available >= TransactionAmount(transaction)
            THEN LET amount == TransactionAmount(transaction)
                 IN [self EXCEPT !.deposits[line.id] = TransactionDispute(transaction),
                                 !.available = @ - amount,
                                 !.held = @ + amount]
            ELSE self
    ELSE self

dispute_Unguarded(self, line) ==
    IF line.id \in DOMAIN self.deposits
    THEN LET transaction == self.deposits[line.id]
             amount == TransactionAmount(transaction)
         IN [self EXCEPT !.deposits[line.id] = TransactionDispute(transaction),
                         !.available = @ - amount,
                         !.held = @ + amount]
    ELSE self

dispute_Locks(self, line) ==
    IF line.id \in DOMAIN self.deposits
    THEN LET transaction == self.deposits[line.id]
         IN IF ~TransactionDisputed(transaction)
            THEN LET amount == TransactionAmount(transaction)
                 IN lock([self EXCEPT !.deposits[line.id] = TransactionDispute(transaction),
                                      !.available = @ - amount,
                                      !.held = @ + amount])
            ELSE self
    ELSE self

dispute_Toggle(self, line) ==
    IF line.id \in DOMAIN self.deposits
    THEN LET transaction == self.deposits[line.id]
             amount == TransactionAmount(transaction)
         IN IF ~TransactionDisputed(transaction)
            THEN [self EXCEPT !.deposits[line.id] = TransactionDispute(transaction),
                              !.available = @ - amount,
                              !.held = @ + amount]
            ELSE [self EXCEPT !.deposits[line.id] = TransactionUndispute(transaction),
                              !.available = @ + amount,
                              !.held = @ - amount]
    ELSE self

dispute(self, line) ==
    IF line.id \in DOMAIN self.deposits
    THEN LET transaction == self.deposits[line.id]
         IN IF ~TransactionDisputed(transaction)
            THEN LET amount == TransactionAmount(transaction)
                 IN [self EXCEPT !.deposits[line.id] = TransactionDispute(transaction),
                                 !.available = @ - amount,
                                 !.held = @ + amount]
            ELSE self
    ELSE self

resolve_Unguarded(self, line) ==
    IF line.id \in DOMAIN self.deposits
    THEN LET transaction == self.deposits[line.id]
         IN [self EXCEPT !.available = @ + TransactionAmount(transaction),
                         !.held = @ - TransactionAmount(transaction),
                         !.deposits[line.id] = TransactionUndispute(transaction)]
    ELSE self

resolve_KeepsHeld(self, line) ==
    IF line.id \in DOMAIN self.deposits
    THEN LET transaction == self.deposits[line.id]
         IN IF TransactionDisputed(transaction)
            THEN [self EXCEPT !.available = @ + TransactionAmount(transaction),
                              !.deposits[line.id] = TransactionUndispute(transaction)]
            ELSE self
    ELSE self

resolve(self, line) ==
    IF line.id \in DOMAIN self.deposits
    THEN LET transaction == self.deposits[line.id]
         IN IF TransactionDisputed(transaction)
            THEN [self EXCEPT !.available = @ + TransactionAmount(transaction),
                              !.held = @ - TransactionAmount(transaction),
                              !.deposits[line.id] = TransactionUndispute(transaction)]
            ELSE self
    ELSE self

chargeback_Unguarded(self, line) ==
    IF line.id \in DOMAIN self.deposits
    THEN LET transaction == self.deposits[line.id]
         IN lock([self EXCEPT !.held = @ - TransactionAmount(transaction),
                              !.deposits[line.id] = TransactionUndispute(transaction)])
    ELSE self

chargeback_NoLock(self, line) ==
    IF line.id \in DOMAIN self.deposits
    THEN LET transaction == self.deposits[line.id]
         IN IF TransactionDisputed(transaction)
            THEN [self EXCEPT !.held = @ - TransactionAmount(transaction),
                              !.deposits[line.id] = TransactionUndispute(transaction)]
            ELSE self
    ELSE self

chargeback(self, line) ==
    IF line.id \in DOMAIN self.deposits
    THEN LET transaction == self.deposits[line.id]
         IN IF TransactionDisputed(transaction)
            THEN lock([self EXCEPT !.held = @ - TransactionAmount(transaction),
                                   !.deposits[line.id] = TransactionUndispute(transaction)])
            ELSE self
    ELSE self

Dispatch(self, line) ==
    CASE line.type = Deposit -> deposit(self, line)
      [] line.type = Withdrawal -> withdrawal(self, line)
      [] line.type = Dispute -> dispute(self, line)
      [] line.type = Resolve -> resolve(self, line)
      [] line.type = Chargeback -> chargeback(self, line)

process_IgnoresLock(self, line) == Dispatch(self, line)

process(self, line) == IF ~self.locked THEN Dispatch(self, line) ELSE self

----------------------------------------------------------------------------
\* main.rs: Engine
process_transaction_AnyKindCreates(engine, line) ==
    IF ~valid(line) THEN engine
    ELSE IF line.client \in DOMAIN engine
         THEN [engine EXCEPT ![line.client] = process(@, line)]
         ELSE IF line.type = Deposit
              THEN Insert(engine, line.client, process(DefaultAccount, line))
              ELSE Insert(engine, line.client, DefaultAccount)

process_transaction_KeyedByTx(engine, line) ==
    IF ~valid(line) THEN engine
    ELSE IF line.id \in DOMAIN engine
         THEN [engine EXCEPT ![line.id] = process(@, line)]
         ELSE IF line.type = Deposit
              THEN Insert(engine, line.id, process(DefaultAccount, line))
              ELSE engine

process_transaction_GlobalLock(engine, line) ==
    IF ~valid(line) THEN engine
    ELSE IF \E d \in DOMAIN engine : engine[d].locked THEN engine
    ELSE IF line.client \in DOMAIN engine
         THEN [engine EXCEPT ![line.client] = process(@, line)]
         ELSE IF line.type = Deposit
              THEN Insert(engine, line.client, process(DefaultAccount, line))
              ELSE engine

process_transaction(engine, line) ==
    IF ~valid(line) THEN engine
    ELSE IF line.client \in DOMAIN engine
         THEN [engine EXCEPT ![line.client] = process(@, line)]
         ELSE IF line.type = Deposit
              THEN Insert(engine, line.client, process(DefaultAccount, line))
              ELSE engine

\* The rows write_status_to_csv serializes, one per entry of the map.
write_status_to_csv(engine) == {get_status(engine[c], c) : c \in DOMAIN engine}

----------------------------------------------------------------------------
\* run_engine: a default Engine, nothing read, nothing written.
Init ==
    /\ accounts = <<>>
    /\ phase = "reading"
    /\ output = {}
    /\ nread = 0
    /\ last = <<>>
    /\ prev = <<>>
    /\ deposited = {}
    /\ accepted = {}
    /\ file = <<>>

\* process_from_csv, one iteration on a row that deserializes to an InputLine.
ReadRecord(line) ==
    /\ phase = "reading"
    /\ nread < MaxInput
    /\ accounts' = process_transaction(accounts, line)
    /\ nread' = nread + 1
    /\ last' = <<line>>
    /\ prev' = accounts
    /\ deposited' = IF valid(line) /\ line.type = Deposit
                    THEN deposited \cup {line.client}
                    ELSE deposited
    /\ accepted' = IF /\ valid(line)
                      /\ line.type = Deposit
                      /\ line.client \in DOMAIN accounts => ~accounts[line.client].locked
                   THEN accepted \cup {<<line.client, line.id>>}
                   ELSE accepted
    /\ UNCHANGED <<phase, output, file>>

\* The row dropped and the loop going on to the next row.
ReadMalformed_Skips ==
    /\ phase = "reading"
    /\ nread < MaxInput
    /\ nread' = nread + 1
    /\ UNCHANGED <<accounts, phase, output, last, prev, deposited, accepted, file>>

\* process_from_csv, one iteration on a row that fails to deserialize: `result?`
\* returns the error, run_engine returns it and main panics in expect().
ReadMalformed ==
    /\ phase = "reading"
    /\ nread < MaxInput
    /\ phase' = "failed"
    /\ nread' = nread + 1
    /\ UNCHANGED <<accounts, output, last, prev, deposited, accepted, file>>

\* End of input: process_from_csv returns Ok and run_engine writes the status.
WriteStatus ==
    /\ phase = "reading"
    /\ output' = write_status_to_csv(accounts)
    /\ phase' = "written"
    /\ UNCHANGED <<accounts, nread, last, prev, deposited, accepted, file>>

Next ==
    \/ \E line \in InputLine : ReadRecord(line)
    \/ ReadMalformed
    \/ WriteStatus

Spec == Init /\ [][Next]_vars

----------------------------------------------------------------------------
\* The runs whose rows all pass valid(), the rows that reach the routing.
ValidLines == {line \in InputLine : valid(line)}

NextValid ==
    \/ \E line \in ValidLines : ReadRecord(line)
    \/ ReadMalformed
    \/ WriteStatus

SpecValid == Init /\ [][NextValid]_vars

----------------------------------------------------------------------------
\* The runs in which no transaction id is used by two accepted Deposits of the
\* same client.
ReusesDepositId(line) ==
    /\ line.type = Deposit
    /\ valid(line)
    /\ <<line.client, line.id>> \in accepted

NextUniqueIds ==
    \/ \E line \in InputLine : ~ReusesDepositId(line) /\ ReadRecord(line)
    \/ ReadMalformed
    \/ WriteStatus

SpecUniqueIds == Init /\ [][NextUniqueIds]_vars

----------------------------------------------------------------------------
\* The runs in which no row carries a negative amount.
NonNegativeAmounts == {0, MaxAmount - 1, MaxAmount}

NonNegativeLines ==
    [type : InputLineType, client : Clients, id : TxIds,
     amount : {None} \cup {Some(a) : a \in NonNegativeAmounts}]

NextNonNegative ==
    \/ \E line \in NonNegativeLines : ReadRecord(line)
    \/ ReadMalformed
    \/ WriteStatus

SpecNonNegative == Init /\ [][NextNonNegative]_vars

----------------------------------------------------------------------------
\* The same run on an input file fixed beforehand: the reader yields the rows
\* of the file in order, each Ok(line), written <<line>>, or Err, written <<>>.
FileLines ==
    {[type |-> Deposit, client |-> 1, id |-> 1, amount |-> Some(MaxAmount)],
     [type |-> Withdrawal, client |-> 1, id |-> 2, amount |-> Some(MaxAmount - 1)],
     [type |-> Dispute, client |-> 1, id |-> 1, amount |-> None],
     [type |-> Resolve, client |-> 1, id |-> 1, amount |-> None],
     [type |-> Chargeback, client |-> 1, id |-> 1, amount |-> None],
     [type |-> Deposit, client |-> 1, id |-> 1, amount |-> Some(MaxAmount - 1)],
     [type |-> Deposit, client |-> 2, id |-> 2, amount |-> Some(MaxAmount)]}

FileRows == {<<>>} \cup {<<line>> : line \in FileLines}

Files == UNION {[1..n -> FileRows] : n \in 0..MaxInput}

InitFile ==
    /\ accounts = <<>>
    /\ phase = "reading"
    /\ output = {}
    /\ nread = 0
    /\ last = <<>>
    /\ prev = <<>>
    /\ deposited = {}
    /\ accepted = {}
    /\ file \in Files

Row == file[nread + 1]

FileRecord == nread < Len(file) /\ Row # <<>> /\ ReadRecord(Row[1])

FileMalformed == nread < Len(file) /\ Row = <<>> /\ ReadMalformed

FileEnd == nread = Len(file) /\ WriteStatus

NextFile == FileRecord \/ FileMalformed \/ FileEnd

SpecFile == InitFile /\ [][NextFile]_vars

----------------------------------------------------------------------------
\* Vocabulary of the properties, in terms of the row processed last.
Processed == last # <<>>
Line == last[1]

\* The amount presence contradicts the kind of the row.
AmountContradictsKind(line) ==
    \/ line.type \in {Deposit, Withdrawal} /\ line.amount = None
    \/ line.type \in {Dispute, Resolve, Chargeback} /\ line.amount # None

\* The row processed last reached an unlocked account that existed before it.
RoutedToUnlocked(kind) ==
    /\ Processed
    /\ ~AmountContradictsKind(Line)
    /\ Line.type = kind
    /\ Line.client \in DOMAIN prev
    /\ ~prev[Line.client].locked

Before == prev[Line.client]
After == accounts[Line.client]

\* The transaction the row processed last names was stored (and disputed or not).
StoredBefore == Line.id \in DOMAIN Before.deposits
DisputedBefore == StoredBefore /\ Before.deposits[Line.id].disputed
StoredAmount == Before.deposits[Line.id].amount

TotalOf(engine, c) ==
    IF c \in DOMAIN engine THEN engine[c].available + engine[c].held ELSE 0

DisputeLine(c, id) == [type |-> Dispute, client |-> c, id |-> id, amount |-> None]

----------------------------------------------------------------------------
\* C1 (lock finality): a row of any kind, transaction id and amount addressed
\* to an account that is locked leaves available, held, locked and the stored
\* transactions of that account exactly as they were; and in every state,
\* process on a locked account returns the account unchanged for every row.
C1_LockFinality ==
    /\ (Processed /\ Line.client \in DOMAIN prev /\ prev[Line.client].locked)
          => (Line.client \in DOMAIN accounts /\ After = Before)
    /\ \A c \in DOMAIN accounts :
          accounts[c].locked =>
             \A line \in InputLine :
                (line.client = c /\ ~AmountContradictsKind(line))
                   => process(accounts[c], line) = accounts[c]

\* A Deposit with an amount was processed for a locked account with stored
\* transactions.
C1_Witness ==
    /\ Processed
    /\ Line.type = Deposit
    /\ Line.amount = Some(MaxAmount)
    /\ Line.client \in DOMAIN prev
    /\ prev[Line.client].locked
    /\ After = Before

\* C2: a row whose amount presence contradicts its kind changes nothing in the
\* ledger: no account changes and none is created.
C2_InvalidDiscarded ==
    /\ (Processed /\ AmountContradictsKind(Line)) => accounts = prev
    /\ \A line \in InputLine :
          AmountContradictsKind(line) => process_transaction(accounts, line) = accounts

\* A Deposit without an amount was processed for a client that has no account,
\* while another client has one.
C2_Witness ==
    /\ Processed
    /\ Line.type = Deposit
    /\ Line.amount = None
    /\ Line.client \notin DOMAIN prev
    /\ Line.client \notin DOMAIN accounts
    /\ DOMAIN accounts # {}

\* C3 (lazy creation): the ledger holds an account for a client exactly when a
\* valid Deposit was processed for that client, the written snapshot has one
\* row for each such client, a row of another kind for a client with no account
\* creates none, and the first Deposit of a client gives available = amount,
\* held = 0, locked = FALSE.
C3_LazyCreation ==
    /\ DOMAIN accounts = deposited
    /\ phase = "written" =>
          /\ {r.client : r \in output} = deposited
          /\ Cardinality(output) = Cardinality(deposited)
    /\ (Processed /\ Line.client \notin DOMAIN prev) =>
          IF Line.type = Deposit /\ ~AmountContradictsKind(Line)
          THEN /\ Line.client \in DOMAIN accounts
               /\ After.available = unwrap(Line.amount)
               /\ After.held = 0
               /\ After.locked = FALSE
          ELSE Line.client \notin DOMAIN accounts

\* A Withdrawal with an amount was processed for a client with no account and
\* the snapshot was written with one row, for the other client.
C3_Witness ==
    /\ phase = "written"
    /\ Processed
    /\ Line.type = Withdrawal
    /\ Line.amount # None
    /\ Line.client \notin DOMAIN accounts
    /\ Cardinality(output) = 1

\* C4 (cross-account isolation): processing a row addressed to client c leaves
\* the account of every other client as it was, and creates or removes no
\* account of another client.
C4_CrossAccountIsolation ==
    Processed =>
       \A d \in (DOMAIN prev \cup DOMAIN accounts \cup Clients) \ {Line.client} :
          /\ d \in DOMAIN accounts <=> d \in DOMAIN prev
          /\ d \in DOMAIN prev => accounts[d] = prev[d]

\* A row changed the account of its client while another client had an account
\* with a disputed transaction.
C4_Witness ==
    /\ Processed
    /\ Line.client \in DOMAIN prev
    /\ After # Before
    /\ \E d \in DOMAIN prev \ {Line.client} :
          /\ prev[d].held # 0
          /\ accounts[d] = prev[d]

\* C5 (conservation): the total get_status reports for an account is its
\* available plus its held, in every state and in every row written.
C5_Conservation ==
    /\ \A c \in DOMAIN accounts :
          get_status(accounts[c], c).total = accounts[c].available + accounts[c].held
    /\ \A r \in output :
          /\ r.client \in DOMAIN accounts
          /\ r.available = accounts[r.client].available
          /\ r.held = accounts[r.client].held
          /\ r.total = r.available + r.held

\* A row was written for an account with a negative available and money held.
C5_Witness ==
    \E r \in output : r.available < 0 /\ r.held > 0 /\ r.total = r.available + r.held

\* C6: the total (available + held) of an account changes in a step only by
\* +amount on an applied Deposit, by -amount on an applied Withdrawal and by
\* minus the stored amount on an applied Chargeback; an applied Dispute or
\* Resolve and every dropped row leave every total unchanged.  A client with
\* no account counts as total 0.
AppliedDeposit ==
    /\ Line.type = Deposit
    /\ ~AmountContradictsKind(Line)
    /\ Line.client \in DOMAIN prev => ~prev[Line.client].locked

AppliedWithdrawal ==
    /\ RoutedToUnlocked(Withdrawal)
    /\ Before.available >= unwrap(Line.amount)

AppliedChargeback == RoutedToUnlocked(Chargeback) /\ DisputedBefore

ExpectedTotalChange ==
    CASE AppliedDeposit -> unwrap(Line.amount)
      [] AppliedWithdrawal -> 0 - unwrap(Line.amount)
      [] AppliedChargeback -> 0 - StoredAmount
      [] OTHER -> 0

C6_TotalChangesOnlyByOperation ==
    Processed =>
       \A c \in DOMAIN prev \cup DOMAIN accounts \cup Clients :
          TotalOf(accounts, c) - TotalOf(prev, c) =
             IF c = Line.client THEN ExpectedTotalChange ELSE 0

\* A Chargeback was applied to a disputed deposit of MaxAmount and the total
\* of the account fell by that amount.
C6_Witness ==
    /\ Processed
    /\ AppliedChargeback
    /\ StoredAmount = MaxAmount
    /\ TotalOf(accounts, Line.client) = TotalOf(prev, Line.client) - MaxAmount

\* C7: a Withdrawal on an unlocked account subtracts its amount from available
\* when available >= amount and changes nothing otherwise; held, locked and
\* the stored transactions are unchanged either way (the Withdrawal is not
\* stored), so with available = 0 and held = 0 a positive Withdrawal leaves
\* every balance at 0.
C7_Withdrawal ==
    RoutedToUnlocked(Withdrawal) =>
       /\ After = IF Before.available >= unwrap(Line.amount)
                  THEN [Before EXCEPT !.available = @ - unwrap(Line.amount)]
                  ELSE Before
       /\ After.held = Before.held
       /\ After.locked = Before.locked
       /\ After.deposits = Before.deposits
       /\ (Before.available = 0 /\ Before.held = 0 /\ unwrap(Line.amount) > 0) =>
             (After.available = 0 /\ After.held = 0 /\ total(After) = 0)

\* A positive Withdrawal was processed for an unlocked account whose available
\* and held were 0 and that has a stored deposit.
C7_Witness ==
    /\ RoutedToUnlocked(Withdrawal)
    /\ unwrap(Line.amount) > 0
    /\ Before.available = 0
    /\ Before.held = 0
    /\ Before.deposits # <<>>
    /\ After = Before

\* C8: a Dispute on an unlocked account that names a stored deposit not
\* currently disputed takes effect whatever available is: available falls by
\* the stored amount, held rises by it, the transaction becomes disputed and
\* locked stays FALSE (available may become negative).
C8_DisputeTakesEffect ==
    (RoutedToUnlocked(Dispute) /\ StoredBefore /\ ~DisputedBefore) =>
       /\ After = [Before EXCEPT !.available = @ - StoredAmount,
                                 !.held = @ + StoredAmount,
                                 !.deposits[Line.id].disputed = TRUE]
       /\ After.deposits[Line.id].disputed
       /\ After.locked = FALSE

\* deposit 3 tx=1, withdraw 2, dispute tx=1: available = -2, held = 3,
\* total = 1, locked = FALSE.
C8_Witness ==
    /\ RoutedToUnlocked(Dispute)
    /\ Line.id = 1
    /\ StoredBefore
    /\ ~DisputedBefore
    /\ StoredAmount = 3
    /\ Before.available = 1
    /\ Before.held = 0
    /\ After.available = -2
    /\ After.held = 3
    /\ get_status(After, Line.client).total = 1
    /\ After.locked = FALSE

\* C9 (idempotent dispute guard): in every state, for every client and
\* transaction id, processing a Dispute twice in a row gives the ledger that
\* processing it once gives; a Dispute naming a transaction that is already
\* disputed changes nothing.
C9_DisputeIdempotent ==
    /\ \A c \in Clients, id \in TxIds :
          /\ process_transaction(process_transaction(accounts, DisputeLine(c, id)),
                                 DisputeLine(c, id))
                = process_transaction(accounts, DisputeLine(c, id))
          /\ c \in DOMAIN accounts =>
                process(process(accounts[c], DisputeLine(c, id)), DisputeLine(c, id))
                   = process(accounts[c], DisputeLine(c, id))
    /\ (RoutedToUnlocked(Dispute) /\ DisputedBefore) => accounts = prev

\* A Dispute was processed for a transaction of an unlocked account that was
\* already disputed, with a nonzero amount held.
C9_Witness ==
    /\ RoutedToUnlocked(Dispute)
    /\ DisputedBefore
    /\ Before.held = MaxAmount
    /\ After = Before

\* C10: a Resolve on an unlocked account takes effect exactly when a stored
\* transaction exists for its id and is disputed: then available rises by the
\* stored amount, held falls by it, the transaction becomes not disputed and
\* locked stays FALSE; otherwise the account is unchanged.
C10_Resolve ==
    RoutedToUnlocked(Resolve) =>
       /\ After = IF DisputedBefore
                  THEN [Before EXCEPT !.available = @ + StoredAmount,
                                      !.held = @ - StoredAmount,
                                      !.deposits[Line.id].disputed = FALSE]
                  ELSE Before
       /\ After # Before <=> DisputedBefore
       /\ After.locked = FALSE

\* A Resolve was applied to a disputed deposit: the held amount went back to
\* available.
C10_Witness ==
    /\ RoutedToUnlocked(Resolve)
    /\ DisputedBefore
    /\ StoredAmount = MaxAmount
    /\ After.available = Before.available + MaxAmount
    /\ After.held = Before.held - MaxAmount
    /\ ~After.deposits[Line.id].disputed

\* C11: a Chargeback on an unlocked account takes effect exactly when a stored
\* transaction exists for its id and is disputed: then held falls by the stored
\* amount, available is unchanged, the transaction becomes not disputed and
\* locked becomes TRUE; otherwise the account is unchanged and stays unlocked.
C11_Chargeback ==
    RoutedToUnlocked(Chargeback) =>
       /\ After = IF DisputedBefore
                  THEN [Before EXCEPT !.held = @ - StoredAmount,
                                      !.deposits[Line.id].disputed = FALSE,
                                      !.locked = TRUE]
                  ELSE Before
       /\ After.available = Before.available
       /\ After.locked <=> DisputedBefore
       /\ After # Before <=> DisputedBefore

\* deposit 3, withdraw 2, dispute, chargeback: available = -2, held = 0,
\* total = -2, locked = TRUE.
C11_Witness ==
    /\ RoutedToUnlocked(Chargeback)
    /\ DisputedBefore
    /\ StoredAmount = 3
    /\ Before.available = -2
    /\ Before.held = 3
    /\ After.available = -2
    /\ After.held = 0
    /\ get_status(After, Line.client).total = -2
    /\ After.locked
    /\ ~After.deposits[Line.id].disputed

\* C12: a Dispute, Resolve or Chargeback whose transaction id is not the id of
\* a Deposit accepted by the account of the same client (never seen, used only
\* by a Withdrawal, or deposited only by another client) is dropped: no
\* account changes.
C12_UnknownIdDropped ==
    /\ (/\ Processed
        /\ Line.type \in {Dispute, Resolve, Chargeback}
        /\ <<Line.client, Line.id>> \notin accepted) => accounts = prev
    /\ \A kind \in {Dispute, Resolve, Chargeback}, c \in Clients, id \in TxIds :
          <<c, id>> \notin accepted =>
             process_transaction(accounts,
                [type |-> kind, client |-> c, id |-> id, amount |-> None]) = accounts
    /\ \A c \in DOMAIN accounts :
          DOMAIN accounts[c].deposits = {id \in TxIds : <<c, id>> \in accepted}

\* A Dispute was processed for an unlocked account with money available,
\* naming an id that only the other client deposited.
C12_Witness ==
    /\ RoutedToUnlocked(Dispute)
    /\ Before.available > 0
    /\ <<Line.client, Line.id>> \notin accepted
    /\ \E d \in Clients \ {Line.client} :
          /\ <<d, Line.id>> \in accepted
          /\ d \in DOMAIN prev
          /\ ~prev[d].locked
          /\ ~prev[d].deposits[Line.id].disputed
    /\ accounts = prev

\* C13: the locked flag of an account goes from FALSE to TRUE only in a step
\* that applies a Chargeback to a disputed stored transaction of that account,
\* and an account that is locked is locked after every later step.
LockedIn(engine, c) == c \in DOMAIN engine /\ engine[c].locked

C13_LockOnlyByChargeback ==
    \A c \in DOMAIN prev \cup DOMAIN accounts \cup Clients :
       /\ (LockedIn(accounts, c) /\ ~LockedIn(prev, c)) =>
             (AppliedChargeback /\ Line.client = c)
       /\ LockedIn(prev, c) => LockedIn(accounts, c)

\* A Resolve naming the charged-back transaction was processed for a locked
\* account, which stayed locked, after a Chargeback locked it.
C13_Witness ==
    /\ Processed
    /\ Line.type = Resolve
    /\ Line.amount = None
    /\ LockedIn(prev, Line.client)
    /\ Line.id \in DOMAIN Before.deposits
    /\ LockedIn(accounts, Line.client)

\* C14 as stated: the disputed flag of a stored transaction goes from FALSE to
\* TRUE only by a successful Dispute naming its id and from TRUE to FALSE only
\* by a successful Resolve or Chargeback naming its id.
FlagIn(engine, c, id) ==
    /\ c \in DOMAIN engine
    /\ id \in DOMAIN engine[c].deposits
    /\ engine[c].deposits[id].disputed

StoredIn(engine, c, id) == c \in DOMAIN engine /\ id \in DOMAIN engine[c].deposits

Names(c, id) == Processed /\ Line.client = c /\ Line.id = id

SuccessfulDispute == RoutedToUnlocked(Dispute) /\ StoredBefore /\ ~DisputedBefore
SuccessfulResolve == RoutedToUnlocked(Resolve) /\ DisputedBefore
SuccessfulChargeback == RoutedToUnlocked(Chargeback) /\ DisputedBefore
DepositReusingId == RoutedToUnlocked(Deposit) /\ StoredBefore

C14_Original ==
    \A c \in Clients, id \in TxIds :
       StoredIn(prev, c, id) =>
          /\ (~FlagIn(prev, c, id) /\ FlagIn(accounts, c, id)) =>
                (Names(c, id) /\ SuccessfulDispute)
          /\ (FlagIn(prev, c, id) /\ ~FlagIn(accounts, c, id)) =>
                (Names(c, id) /\ (SuccessfulResolve \/ SuccessfulChargeback))

\* C14 amended: as stated, except that an applied Deposit reusing the id of a
\* stored transaction replaces it by a new transaction that is not disputed,
\* so the flag under that id also goes from TRUE to FALSE by such a Deposit.
\* A stored transaction is never removed.
C14_FlagLifecycle ==
    \A c \in Clients, id \in TxIds :
       StoredIn(prev, c, id) =>
          /\ StoredIn(accounts, c, id)
          /\ (~FlagIn(prev, c, id) /\ FlagIn(accounts, c, id)) =>
                (Names(c, id) /\ SuccessfulDispute)
          /\ (FlagIn(prev, c, id) /\ ~FlagIn(accounts, c, id)) =>
                (Names(c, id) /\ (SuccessfulResolve \/ SuccessfulChargeback
                                     \/ DepositReusingId))

\* A Deposit reused the id of a disputed transaction: the entry is now not
\* disputed while its old amount is still held.
C14_Witness ==
    /\ DepositReusingId
    /\ DisputedBefore
    /\ ~FlagIn(accounts, Line.client, Line.id)
    /\ After.held = StoredAmount
    /\ After.held # 0

\* C15 as stated: a malformed row is dropped alone and the later rows are still
\* processed, so once the run has ended the ledger is the one the same input
\* gives with its malformed rows removed.
RECURSIVE ReplayAll(_, _)
ReplayAll(engine, rows) ==
    IF rows = <<>> THEN engine
    ELSE ReplayAll(process_transaction(engine, Head(rows)[1]), Tail(rows))

IsMalformed(row) == row = <<>>
IsWellFormed(row) == row # <<>>
HasMalformed(f) == \E i \in 1..Len(f) : IsMalformed(f[i])
FirstMalformed(f) == CHOOSE i \in 1..Len(f) :
                        IsMalformed(f[i]) /\ \A j \in 1..(i - 1) : IsWellFormed(f[j])
BeforeFirstMalformed(f) ==
    IF HasMalformed(f) THEN SubSeq(f, 1, FirstMalformed(f) - 1) ELSE f

RunEnded == phase # "reading"

C15_Original ==
    RunEnded => accounts = ReplayAll(<<>>, SelectSeq(file, IsWellFormed))

\* C15 amended: a malformed row ends the run: the rows before the first
\* malformed row are the only ones processed, no later row is read and no
\* status is written; with no malformed row every row is processed and the
\* status of the resulting ledger is written.
C15_MalformedRowAborts ==
    RunEnded =>
       /\ accounts = ReplayAll(<<>>, BeforeFirstMalformed(file))
       /\ phase = "failed" <=> HasMalformed(file)
       /\ phase = "failed" => (output = {} /\ nread = FirstMalformed(file))
       /\ phase = "written" =>
             /\ nread = Len(file)
             /\ output = write_status_to_csv(ReplayAll(<<>>, file))

\* A file with a deposit, a malformed row and a deposit for the other client:
\* the run has failed with the first deposit applied, the second not, and
\* nothing written.
C15_Witness ==
    /\ phase = "failed"
    /\ Len(file) = 3
    /\ IsWellFormed(file[1]) /\ file[1][1].type = Deposit /\ file[1][1].client = 1
    /\ IsMalformed(file[2])
    /\ IsWellFormed(file[3]) /\ file[3][1].type = Deposit /\ file[3][1].client = 2
    /\ DOMAIN accounts = {1}
    /\ output = {}

\* C16 (single pass, no retry): a Dispute, Resolve or Chargeback that was
\* dropped is never applied later.  An applied Deposit is stored as not
\* disputed, adds its whole amount to available and moves nothing to held,
\* whatever was dropped before it; so for an id that is not stored, Dispute
\* then Deposit gives the ledger of the Deposit alone, and Deposit then Dispute
\* gives another one, with the amount held.
DepositLine(c, id, a) == [type |-> Deposit, client |-> c, id |-> id, amount |-> Some(a)]
LaterLine(kind, c, id) == [type |-> kind, client |-> c, id |-> id, amount |-> None]
Then(engine, l1, l2) == process_transaction(process_transaction(engine, l1), l2)
AccountIn(engine, c) == IF c \in DOMAIN engine THEN engine[c] ELSE DefaultAccount

C16_DroppedLeavesNoTrace ==
    /\ (Processed /\ AppliedDeposit) =>
          /\ After.deposits[Line.id] = [type |-> "Deposit",
                                        amount |-> unwrap(Line.amount),
                                        disputed |-> FALSE]
          /\ After.available = AccountIn(prev, Line.client).available + unwrap(Line.amount)
          /\ After.held = AccountIn(prev, Line.client).held
    /\ \A c \in Clients, id \in TxIds, a \in Amounts :
          (~LockedIn(accounts, c) /\ ~StoredIn(accounts, c, id)) =>
             /\ \A kind \in {Dispute, Resolve, Chargeback} :
                   Then(accounts, LaterLine(kind, c, id), DepositLine(c, id, a))
                      = process_transaction(accounts, DepositLine(c, id, a))
             /\ LET first == Then(accounts, LaterLine(Dispute, c, id), DepositLine(c, id, a))
                    second == Then(accounts, DepositLine(c, id, a), LaterLine(Dispute, c, id))
                    before == AccountIn(accounts, c)
                IN /\ ~first[c].deposits[id].disputed
                   /\ first[c].available = before.available + a
                   /\ first[c].held = before.held
                   /\ second[c].deposits[id].disputed
                   /\ second[c].available = before.available
                   /\ second[c].held = before.held + a
                   /\ first # second

C16_NoRetry ==
    /\ C16_DroppedLeavesNoTrace
    /\ phase = "written" => accounts = ReplayAll(<<>>, file)

\* The file is dispute tx 1, then deposit tx 1: the run ended with the whole
\* deposit available, nothing held and the transaction not disputed.
C16_Witness ==
    /\ phase = "written"
    /\ file = << <<LaterLine(Dispute, 1, 1)>>, <<DepositLine(1, 1, MaxAmount)>> >>
    /\ accounts[1].available = MaxAmount
    /\ accounts[1].held = 0
    /\ ~accounts[1].deposits[1].disputed
    /\ accounts # ReplayAll(<<>>, << <<DepositLine(1, 1, MaxAmount)>>,
                                    <<LaterLine(Dispute, 1, 1)>> >>)

\* C17: rows of different clients commute: for the ledger before the row
\* processed last, that row and every row of another client, valid or not,
\* give the same ledger (same accounts, same state of each) in either order.
\* It is checked on the runs of rows that pass valid(); a row that does not is
\* dropped before routing and commutes with every row.
C17_DifferentClientsCommute ==
    Processed =>
       LET lineFirst == process_transaction(prev, Line)
       IN \A other \in InputLine :
             other.client # Line.client =>
                process_transaction(lineFirst, other) = Then(prev, other, Line)

\* A Chargeback locked the account of one client while the other client had an
\* unlocked account with a deposit that a row can still dispute.
C17_Witness ==
    /\ Processed
    /\ AppliedChargeback
    /\ \E d \in DOMAIN prev \ {Line.client} :
          /\ ~prev[d].locked
          /\ \E id \in DOMAIN prev[d].deposits : ~prev[d].deposits[id].disputed
          /\ Then(prev, Line, LaterLine(Dispute, d, 1)) # accounts
          /\ Then(prev, Line, LaterLine(Dispute, d, 1))
                = Then(prev, LaterLine(Dispute, d, 1), Line)

\* C18: when no transaction id is used by more than one Deposit of the same
\* client, the held amount of every account is the sum of the amounts of its
\* stored transactions that are disputed (0 when none is).
RECURSIVE SumAmounts(_, _)
SumAmounts(deposits, ids) ==
    IF ids = {} THEN 0
    ELSE LET id == CHOOSE x \in ids : TRUE
         IN deposits[id].amount + SumAmounts(deposits, ids \ {id})

DisputedIds(account) == {id \in DOMAIN account.deposits : account.deposits[id].disputed}

C18_HeldIsSumOfDisputed ==
    \A c \in DOMAIN accounts :
       /\ accounts[c].held = SumAmounts(accounts[c].deposits, DisputedIds(accounts[c]))
       /\ DisputedIds(accounts[c]) = {} => accounts[c].held = 0

\* Two deposits of different amounts are both disputed and held is their sum.
C18_Witness ==
    \E c \in DOMAIN accounts :
       /\ Cardinality(DisputedIds(accounts[c])) = 2
       /\ \E i, j \in DisputedIds(accounts[c]) :
             accounts[c].deposits[i].amount > accounts[c].deposits[j].amount
       /\ accounts[c].held = (2 * MaxAmount) - 1

\* C19: when no Deposit or Withdrawal amount of the input is negative, every
\* account that is not locked has held >= 0 and total = available + held >= 0;
\* a negative total occurs only in a locked account.
C19_NonNegativeUnlessLocked ==
    \A c \in DOMAIN accounts :
       /\ ~accounts[c].locked =>
             /\ accounts[c].held >= 0
             /\ total(accounts[c]) >= 0
             /\ accounts[c].available + accounts[c].held >= 0
       /\ total(accounts[c]) < 0 => accounts[c].locked

\* deposit, withdrawal, dispute, chargeback: a locked account with a negative
\* total, and before the chargeback an unlocked one with a negative available.
C19_Witness ==
    /\ Processed
    /\ AppliedChargeback
    /\ Before.available < 0
    /\ total(Before) >= 0
    /\ After.locked
    /\ total(After) < 0

\* C20: for every amount a valid row may carry, no Withdrawal row increases
\* the available amount of an account and no Deposit row decreases it.
C20_SignSafety ==
    (Processed /\ ~AmountContradictsKind(Line) /\ Line.client \in DOMAIN accounts) =>
       /\ Line.type = Withdrawal =>
             After.available <= AccountIn(prev, Line.client).available
       /\ Line.type = Deposit =>
             After.available >= AccountIn(prev, Line.client).available

\* The two halves of C20, each on its own.
C20_WithdrawalNeverIncreases ==
    RoutedToUnlocked(Withdrawal) => After.available <= Before.available

C20_DepositNeverDecreases ==
    (Processed /\ AppliedDeposit) =>
       After.available >= AccountIn(prev, Line.client).available

====
